---- MODULE Spec2Model ----
(***************************************************************************)
(* CollabLab API (src/main.py): the request handlers over the four Mongo   *)
(* collections users, projects, savedproject and collaborationrequest.     *)
(*                                                                         *)
(* Every handler is split at its store operations: one action per          *)
(* find_one / insert_one / update_one / delete_one / delete_many call, so  *)
(* that requests in flight interleave exactly where the server lets them.  *)
(* A request occupies a slot of req from its arrival to its response.      *)
(*                                                                         *)
(* The def handlers run on the worker threads and the async ones on the    *)
(* event loop, next to those threads; two async handlers of one process    *)
(* do not overlap between their store calls, two processes do.  The model  *)
(* lets every pair of handlers overlap.                                    *)
(***************************************************************************)
EXTENDS Integers, Sequences, FiniteSets, TLC

\* ------------------------------------------------------------------ bounds
NSlots == 2        \* requests in flight at once
MaxOid == 7        \* ObjectIds the store hands out before inserts stop
MaxReqs == 2       \* requests accepted in one run
MaxClock == 1      \* seconds the clock may advance

Slots == 1 .. NSlots

\* --------------------------------------------------------------- constants
JWT_SECRET == "dev-secret-change-me"
JWT_ALG == "HS256"
StatusValues == {"pending", "accepted", "rejected"}

\* ------------------------------------------------------------- ObjectId
\* An id as it travels in a path or a document field is a string.  A string
\* is modelled by the number its 24 hex digits spell and by its form: "hex" is
\* what str(ObjectId) prints, "bad" is a string that is not 24 hex digits.
\* (Clients send ids as the service printed them: the upper-case spelling of
\* the same digits, which bson also accepts, is not among the inputs.)
str(oid) == [hex |-> oid, form |-> "hex"]
Malformed == [hex |-> 0, form |-> "bad"]

\* bson.ObjectId(s): raises InvalidId unless s is 24 hex digits.
InvalidId(s) == s.form = "bad"
ObjectId(s) == s.hex

\* ---------------------------------------------------------------- passwords
\* passlib's bcrypt context, taken as an ideal salted hash: the hash is not
\* the password, and verify accepts exactly the password that was hashed.
hash_password(password) == [scheme |-> "bcrypt", of |-> password]

verify_password(password, hashed) ==
    /\ hashed.scheme = "bcrypt"
    /\ hashed.of = password

NoHash == [scheme |-> "", of |-> ""]

\* ------------------------------------------------------------------ tokens
\* jwt.encode(payload, JWT_SECRET): the signature is modelled by the key that
\* made it.
create_token(user_id, email, iat) ==
    [sub |-> user_id, email |-> email, iat |-> iat, key |-> JWT_SECRET]

\* jwt.decode(token, JWT_SECRET, algorithms = [JWT_ALG]): JWTError unless the
\* signature was made with JWT_SECRET.  No claim of the payload is validated:
\* the payload carries no exp.
jwt_decode_ok(token) == token.key = JWT_SECRET

NoToken == [sub |-> Malformed, email |-> "", iat |-> 0, key |-> ""]

\* The Authorization value, as authorization.split(" ") sees it: the number of
\* parts, the first part and the second.
Bearer(token) == [parts |-> 2, scheme |-> "Bearer", token |-> token]
MissingHeader == [parts |-> 0, scheme |-> "", token |-> NoToken]

lower(scheme) ==
    CASE scheme = "Bearer" -> "bearer"
      [] scheme = "BEARER" -> "bearer"
      [] OTHER -> scheme

\* ------------------------------------------------------------------- state
VARIABLES
    users,                  \* db["users"]: the documents in insertion order
    projects,               \* db["projects"]: a set of documents
    savedproject,           \* db["savedproject"]: a set of documents
    collaborationrequest,   \* db["collaborationrequest"]: a set of documents
    files,                  \* UPLOAD_DIR: the files written, by generated name
    nextOid,                \* the next ObjectId the process generates
    now,                    \* the clock, in seconds
    req,                    \* the requests in flight
    last,                   \* the response sent by the latest step, if any
    nreqs,                  \* requests accepted so far
    issued                  \* the tokens handed out, each with the user it was made for

vars == <<users, projects, savedproject, collaborationrequest, files,
          nextOid, now, req, last, nreqs, issued>>

store == <<users, projects, savedproject, collaborationrequest, files>>

\* ------------------------------------------------------------- documents
\* A project's created_at is the rank of its creation (later is larger), its
\* updated_at whether an update has stamped it; the other fields of ProjectIn
\* are copied like title and take no part in any check.
NoUser == [_id |-> 0, name |-> "", email |-> "", password_hash |-> NoHash]
NoProject == [_id |-> 0, owner_id |-> Malformed, title |-> <<>>, description |-> <<>>,
              tags |-> <<>>, visibility |-> "", created_at |-> 0, updated_at |-> 0]
NoRequest == [_id |-> 0, project_id |-> Malformed, applicant_id |-> Malformed,
              document_path |-> 0, status |-> ""]

\* ProjectIn, SignUpRequest / SignInRequest / ProfileUpdate bodies.  A text that
\* is searched (title, description, a tag, q) is a sequence of characters.
NoPayload == [title |-> <<>>, description |-> <<>>, tags |-> <<>>, visibility |-> ""]
NoCred == [name |-> "", email |-> "", password |-> ""]

Contains(seq, x) == \E i \in 1 .. Len(seq) : seq[i] = x

\* ------------------------------------------------------- store operations
\* db["users"].find_one({"email": email}): the first match in natural order.
find_user_by_email(email) ==
    IF \E i \in 1 .. Len(users) : users[i].email = email
    THEN users[CHOOSE i \in 1 .. Len(users) :
                 /\ users[i].email = email
                 /\ \A j \in 1 .. i - 1 : users[j].email # email]
    ELSE NoUser

\* db["users"].find_one({"_id": oid})
find_user_by_id(oid) ==
    IF \E i \in 1 .. Len(users) : users[i]._id = oid
    THEN users[CHOOSE i \in 1 .. Len(users) : users[i]._id = oid]
    ELSE NoUser

\* db["projects"].find_one({"_id": oid})
find_project(oid) ==
    IF \E p \in projects : p._id = oid
    THEN CHOOSE p \in projects : p._id = oid
    ELSE NoProject

\* db["collaborationrequest"].find_one({"_id": oid})
find_request(oid) ==
    IF \E r \in collaborationrequest : r._id = oid
    THEN CHOOSE r \in collaborationrequest : r._id = oid
    ELSE NoRequest

\* db["savedproject"].find_one({"user_id": ..., "project_id": ...}) is not None
saved_exists(user_id, project_id) ==
    \E sp \in savedproject : sp.user_id = user_id /\ sp.project_id = project_id

\* -------------------------------------------------------- get_current_user
Unauthenticated == [code |-> 401, id |-> Malformed, email |-> "", name |-> ""]

\* get_current_user with tokens that expire: one issued in an earlier second is
\* refused.
get_current_user_expiring(authorization) ==
    IF authorization.parts # 2 THEN Unauthenticated
    ELSE IF lower(authorization.scheme) # "bearer" THEN Unauthenticated
    ELSE IF ~jwt_decode_ok(authorization.token) THEN Unauthenticated
    ELSE IF authorization.token.iat < now THEN Unauthenticated
    ELSE LET user == find_user_by_id(ObjectId(authorization.token.sub))
         IN  IF user = NoUser THEN Unauthenticated
             ELSE [code |-> 200, id |-> str(user._id), email |-> user.email,
                   name |-> user.name]

get_current_user(authorization) ==
    IF authorization.parts = 0 THEN Unauthenticated
    ELSE IF authorization.parts # 2 THEN Unauthenticated
    ELSE IF lower(authorization.scheme) # "bearer" THEN Unauthenticated
    ELSE IF ~jwt_decode_ok(authorization.token) THEN Unauthenticated
    ELSE IF authorization.token.sub = Malformed \/ authorization.token.email = ""
         THEN Unauthenticated
    ELSE LET user == find_user_by_id(ObjectId(authorization.token.sub))
         IN  IF user = NoUser THEN Unauthenticated
             ELSE [code |-> 200, id |-> str(user._id), email |-> user.email,
                   name |-> user.name]

\* ---------------------------------------------------------------- requests
\* A slot: the handler running (op), where it stands (pc), its arguments and
\* what it has read so far.  A response frees the slot; last is the response
\* the latest step sent, NoResponse when that step sent none.
Idle == [op |-> "", pc |-> "idle", user |-> Malformed, id |-> Malformed,
         payload |-> NoPayload, status |-> "", cred |-> NoCred,
         project_id |-> Malformed, path |-> 0]

NoResponse == [op |-> "", user |-> Malformed, id |-> Malformed, status |-> "",
               cred |-> NoCred, code |-> 0, token |-> NoToken, was |-> "",
               q |-> <<>>, tag |-> <<>>, items |-> <<>>]

\* The response to request r: its HTTP status code (and, from the auth
\* endpoints, the access token; from a listing, the query and the items).  The
\* field was is history, not part of the response: the status a status update
\* replaced.
Response(r, code, token) ==
    [op |-> r.op, user |-> r.user, id |-> r.id, status |-> r.status,
     cred |-> r.cred, code |-> code, token |-> token, was |-> "",
     q |-> <<>>, tag |-> <<>>, items |-> <<>>]

\* Slots are interchangeable: a request takes the first free one.
Free(s) ==
    /\ req[s].pc = "idle"
    /\ \A t \in Slots : t < s => req[t].pc # "idle"
    /\ nreqs < MaxReqs

\* A request that ends in the step that accepts it.
Answer(s, r, code) ==
    /\ last' = Response(r, code, NoToken)
    /\ nreqs' = nreqs + 1
    /\ UNCHANGED req

\* A request that goes on to its next store operation.
Proceed(s, r, pc) ==
    /\ req' = [req EXCEPT ![s] = [r EXCEPT !.pc = pc]]
    /\ nreqs' = nreqs + 1
    /\ last' = NoResponse

Step(s, pc) == req' = [req EXCEPT ![s].pc = pc] /\ last' = NoResponse

Finish(s, code) ==
    /\ last' = Response(req[s], code, NoToken)
    /\ req' = [req EXCEPT ![s] = Idle]

\* ObjectIds the requests in flight will still generate.  A request that
\* inserts is accepted only while the store has ids left for it.
OidsNeeded(r) ==
    CASE r.op = "save_project" /\ r.pc = "insert_one" -> 1
      [] r.op = "apply_to_project" /\ r.pc = "write_file" -> 2
      [] r.op = "apply_to_project" /\ r.pc = "insert_one" -> 1
      [] r.op = "signup" /\ r.pc = "insert_one" -> 1
      [] OTHER -> 0

RECURSIVE OidsReserved(_)
OidsReserved(S) ==
    IF S = {} THEN 0
    ELSE LET s == CHOOSE x \in S : TRUE
         IN  OidsNeeded(req[s]) + OidsReserved(S \ {s})

OidsLeft(n) == nextOid + OidsReserved(Slots) + n <= MaxOid + 1

\* An ObjectId never handed out, for the requests that name no document.
GhostOid == MaxOid + 1

\* What a client can send: the token of a registered user or no header; the id
\* of a document it has seen, an id of no document, or a string that is no id.
Authorizations ==
    {Bearer(create_token(str(users[i]._id), users[i].email, 0)) : i \in 1 .. Len(users)}
        \cup {MissingHeader}

ProjectIds ==
    {str(p._id) : p \in projects} \cup {str(GhostOid), Malformed}

RequestIds ==
    {str(r._id) : r \in collaborationrequest} \cup {str(GhostOid), Malformed}

Payloads ==
    {[title |-> <<"a">>, description |-> <<"b">>, tags |-> <<>>, visibility |-> v] :
        v \in {"public", "private"}}

\* ------------------------------------------------------- POST /projects
create_project(s, authorization, payload) ==
    /\ Free(s)
    /\ LET user == get_current_user(authorization)
           r == [Idle EXCEPT !.op = "create_project", !.user = user.id,
                             !.payload = payload]
       IN  IF user.code # 200
           THEN /\ Answer(s, r, 401)
                /\ UNCHANGED <<store, nextOid, now, issued>>
           ELSE /\ nextOid <= MaxOid
                /\ projects' = projects \cup
                      {[_id |-> nextOid, owner_id |-> user.id,
                        title |-> payload.title, description |-> payload.description,
                        tags |-> payload.tags, visibility |-> payload.visibility,
                        created_at |-> nextOid, updated_at |-> 0]}
                /\ nextOid' = nextOid + 1
                /\ Answer(s, r, 200)
                /\ UNCHANGED <<users, savedproject, collaborationrequest, files,
                               now, issued>>

\* -------------------------------------------------- PUT /projects/{id}
\* update_project_find with the ownership check left out.
update_project_find_unchecked(s, authorization, project_id, payload) ==
    /\ Free(s)
    /\ UNCHANGED <<store, nextOid, now, issued>>
    /\ LET user == get_current_user(authorization)
           r == [Idle EXCEPT !.op = "update_project", !.user = user.id,
                             !.id = project_id, !.payload = payload]
       IN  IF user.code # 200 THEN Answer(s, r, 401)
           ELSE IF InvalidId(project_id) THEN Answer(s, r, 500)
           ELSE LET p == find_project(ObjectId(project_id))
                IN  IF p = NoProject THEN Answer(s, r, 404)
                    ELSE Proceed(s, r, "update_one")

\* find_one, the 404 and the ownership check.
update_project_find(s, authorization, project_id, payload) ==
    /\ Free(s)
    /\ UNCHANGED <<store, nextOid, now, issued>>
    /\ LET user == get_current_user(authorization)
           r == [Idle EXCEPT !.op = "update_project", !.user = user.id,
                             !.id = project_id, !.payload = payload]
       IN  IF user.code # 200 THEN Answer(s, r, 401)
           ELSE IF InvalidId(project_id) THEN Answer(s, r, 500)
           ELSE LET p == find_project(ObjectId(project_id))
                IN  IF p = NoProject THEN Answer(s, r, 404)
                    ELSE IF p.owner_id # user.id THEN Answer(s, r, 403)
                    ELSE Proceed(s, r, "update_one")

\* update_one({"_id": ...}, {"$set": {**payload, "updated_at": now}})
update_project_update_one(s) ==
    /\ req[s].op = "update_project" /\ req[s].pc = "update_one"
    /\ projects' =
          {IF p._id = ObjectId(req[s].id)
           THEN [p EXCEPT !.title = req[s].payload.title,
                          !.description = req[s].payload.description,
                          !.tags = req[s].payload.tags,
                          !.visibility = req[s].payload.visibility,
                          !.updated_at = 1]
           ELSE p : p \in projects}
    /\ Step(s, "find_one")
    /\ UNCHANGED <<users, savedproject, collaborationrequest, files, nextOid,
                   now, nreqs, issued>>

\* The second find_one and the response built from it: p["_id"] of None is a
\* TypeError, a 500.
update_project_return(s) ==
    /\ req[s].op = "update_project" /\ req[s].pc = "find_one"
    /\ IF find_project(ObjectId(req[s].id)) = NoProject
       THEN Finish(s, 500)
       ELSE Finish(s, 200)
    /\ UNCHANGED <<store, nextOid, now, nreqs, issued>>

\* ----------------------------------------------- DELETE /projects/{id}
delete_project_find(s, authorization, project_id) ==
    /\ Free(s)
    /\ UNCHANGED <<store, nextOid, now, issued>>
    /\ LET user == get_current_user(authorization)
           r == [Idle EXCEPT !.op = "delete_project", !.user = user.id,
                             !.id = project_id]
       IN  IF user.code # 200 THEN Answer(s, r, 401)
           ELSE IF InvalidId(project_id) THEN Answer(s, r, 500)
           ELSE LET p == find_project(ObjectId(project_id))
                IN  IF p = NoProject THEN Answer(s, r, 404)
                    ELSE IF p.owner_id # user.id THEN Answer(s, r, 403)
                    ELSE Proceed(s, r, "delete_one")

\* db["projects"].delete_one({"_id": ObjectId(project_id)})
delete_project_delete_one(s) ==
    /\ req[s].op = "delete_project" /\ req[s].pc = "delete_one"
    /\ projects' = {p \in projects : p._id # ObjectId(req[s].id)}
    /\ Step(s, "delete_saved")
    /\ UNCHANGED <<users, savedproject, collaborationrequest, files, nextOid,
                   now, nreqs, issued>>

\* db["savedproject"].delete_many({"project_id": project_id}): the filter is the
\* path string as sent.
delete_project_delete_saved(s) ==
    /\ req[s].op = "delete_project" /\ req[s].pc = "delete_saved"
    /\ savedproject' = {sp \in savedproject : sp.project_id # req[s].id}
    /\ Step(s, "delete_requests")
    /\ UNCHANGED <<users, projects, collaborationrequest, files, nextOid,
                   now, nreqs, issued>>

\* db["collaborationrequest"].delete_many({"project_id": project_id}), then
\* {"ok": True}.
delete_project_delete_requests(s) ==
    /\ req[s].op = "delete_project" /\ req[s].pc = "delete_requests"
    /\ collaborationrequest' =
          {r \in collaborationrequest : r.project_id # req[s].id}
    /\ Finish(s, 200)
    /\ UNCHANGED <<users, projects, savedproject, files, nextOid,
                   now, nreqs, issued>>

\* ------------------------------------------- POST /projects/{id}/save
\* The lookup; project_id is the path string, never parsed.
save_project_find(s, authorization, project_id) ==
    /\ Free(s)
    /\ UNCHANGED <<store, nextOid, now, issued>>
    /\ LET user == get_current_user(authorization)
           r == [Idle EXCEPT !.op = "save_project", !.user = user.id,
                             !.id = project_id]
       IN  IF user.code # 200 THEN Answer(s, r, 401)
           ELSE IF saved_exists(user.id, project_id) THEN Answer(s, r, 200)
           ELSE OidsLeft(1) /\ Proceed(s, r, "insert_one")

save_project_insert_one(s) ==
    /\ req[s].op = "save_project" /\ req[s].pc = "insert_one"
    /\ savedproject' = savedproject \cup
          {[_id |-> nextOid, user_id |-> req[s].user, project_id |-> req[s].id]}
    /\ nextOid' = nextOid + 1
    /\ Finish(s, 200)
    /\ UNCHANGED <<users, projects, collaborationrequest, files, now, nreqs, issued>>

\* ------------------------------------------ POST /projects/{id}/apply
\* The form fields message and portfolio_url are stored as sent and read by no
\* handler that writes; they are left out of the document.
apply_to_project_find(s, authorization, project_id) ==
    /\ Free(s)
    /\ UNCHANGED <<store, nextOid, now, issued>>
    /\ LET user == get_current_user(authorization)
           r == [Idle EXCEPT !.op = "apply_to_project", !.user = user.id,
                             !.id = project_id]
       IN  IF user.code # 200 THEN Answer(s, r, 401)
           ELSE IF InvalidId(project_id) THEN Answer(s, r, 500)
           ELSE LET project == find_project(ObjectId(project_id))
                IN  IF project = NoProject \/ project.visibility = "private"
                    THEN Answer(s, r, 404)
                    ELSE OidsLeft(2) /\ Proceed(s, r, "write_file")

\* safe_name = f"{ObjectId()}_{filename}"; the file is written under it.
apply_to_project_write_file(s) ==
    /\ req[s].op = "apply_to_project" /\ req[s].pc = "write_file"
    /\ files' = files \cup {nextOid}
    /\ nextOid' = nextOid + 1
    /\ req' = [req EXCEPT ![s].pc = "insert_one", ![s].path = nextOid]
    /\ last' = NoResponse
    /\ UNCHANGED <<users, projects, savedproject, collaborationrequest, now,
                   nreqs, issued>>

apply_to_project_insert_one(s) ==
    /\ req[s].op = "apply_to_project" /\ req[s].pc = "insert_one"
    /\ collaborationrequest' = collaborationrequest \cup
          {[_id |-> nextOid, project_id |-> req[s].id, applicant_id |-> req[s].user,
            document_path |-> req[s].path, status |-> "pending"]}
    /\ nextOid' = nextOid + 1
    /\ Finish(s, 200)
    /\ UNCHANGED <<users, projects, savedproject, files, now, nreqs, issued>>

\* -------------------------------------- POST /owner/requests/{id}/status
update_status_find(s, authorization, request_id, status) ==
    /\ Free(s)
    /\ UNCHANGED <<store, nextOid, now, issued>>
    /\ LET user == get_current_user(authorization)
           r == [Idle EXCEPT !.op = "update_status", !.user = user.id,
                             !.id = request_id, !.status = status]
       IN  IF user.code # 200 THEN Answer(s, r, 401)
           ELSE IF InvalidId(request_id) THEN Answer(s, r, 500)
           ELSE LET doc == find_request(ObjectId(request_id))
                IN  IF doc = NoRequest THEN Answer(s, r, 404)
                    ELSE Proceed(s, [r EXCEPT !.project_id = doc.project_id],
                                 "find_project")

\* update_status_check with a guard that lets only a pending request move.
update_status_check_pending_only(s) ==
    /\ req[s].op = "update_status" /\ req[s].pc = "find_project"
    /\ UNCHANGED <<store, nextOid, now, nreqs, issued>>
    /\ LET p == find_project(ObjectId(req[s].project_id))
       IN  IF p = NoProject \/ p.owner_id # req[s].user THEN Finish(s, 403)
           ELSE IF req[s].status \notin StatusValues THEN Finish(s, 400)
           ELSE IF find_request(ObjectId(req[s].id)).status # "pending"
                THEN Finish(s, 400)
           ELSE Step(s, "update_one")

\* update_status_check with the status validation left out.
update_status_check_any_status(s) ==
    /\ req[s].op = "update_status" /\ req[s].pc = "find_project"
    /\ UNCHANGED <<store, nextOid, now, nreqs, issued>>
    /\ LET p == find_project(ObjectId(req[s].project_id))
       IN  IF p = NoProject \/ p.owner_id # req[s].user THEN Finish(s, 403)
           ELSE Step(s, "update_one")

\* update_status_check with the applicant let through as well as the owner.
update_status_check_applicant(s) ==
    /\ req[s].op = "update_status" /\ req[s].pc = "find_project"
    /\ UNCHANGED <<store, nextOid, now, nreqs, issued>>
    /\ LET p == find_project(ObjectId(req[s].project_id))
           doc == find_request(ObjectId(req[s].id))
       IN  IF p = NoProject \/ (p.owner_id # req[s].user /\ doc.applicant_id # req[s].user)
           THEN Finish(s, 403)
           ELSE IF req[s].status \notin StatusValues THEN Finish(s, 400)
           ELSE Step(s, "update_one")

\* The parent project's lookup, the ownership check, then the status check.
update_status_check(s) ==
    /\ req[s].op = "update_status" /\ req[s].pc = "find_project"
    /\ UNCHANGED <<store, nextOid, now, nreqs, issued>>
    /\ LET p == find_project(ObjectId(req[s].project_id))
       IN  IF p = NoProject \/ p.owner_id # req[s].user THEN Finish(s, 403)
           ELSE IF req[s].status \notin StatusValues THEN Finish(s, 400)
           ELSE Step(s, "update_one")

update_status_update_one(s) ==
    /\ req[s].op = "update_status" /\ req[s].pc = "update_one"
    /\ collaborationrequest' =
          {IF r._id = ObjectId(req[s].id) THEN [r EXCEPT !.status = req[s].status]
           ELSE r : r \in collaborationrequest}
    /\ last' = [Response(req[s], 200, NoToken) EXCEPT
                  !.was = find_request(ObjectId(req[s].id)).status]
    /\ req' = [req EXCEPT ![s] = Idle]
    /\ UNCHANGED <<users, projects, savedproject, files, nextOid, now, nreqs, issued>>

StatusInputs == StatusValues \cup {"archived"}

\* ---------------------------------------------------------- GET /projects
\* {"$regex": q, "$options": "i"}: an unanchored, case-insensitive search.  Of
\* the pattern language, a character stands for itself, "." for any character,
\* and an unclosed "(" makes the pattern invalid.
Fold(c) == CASE c = "A" -> "a" [] c = "B" -> "b" [] OTHER -> c

regex_valid(pattern) == ~Contains(pattern, "(")

regex_search(pattern, text) ==
    \E k \in 0 .. Len(text) - Len(pattern) :
        \A i \in 1 .. Len(pattern) :
            pattern[i] = "." \/ Fold(pattern[i]) = Fold(text[k + i])

\* dict.setdefault(key, value)
setdefault(query, key, value) ==
    IF key \in DOMAIN query THEN query ELSE query @@ (key :> value)

\* The filter with the q branch writing its tag search under "tags".
list_projects_query_q_under_tags(q, tag) ==
    LET base == ("visibility" :> [op |-> "eq", arg |-> "public"])
        withq == IF q # <<>>
                 THEN base @@ ("$or" :> [op |-> "regex", arg |-> q])
                           @@ ("tags" :> [op |-> "elemMatch", arg |-> q])
                 ELSE base
    IN  IF tag # <<>>
        THEN setdefault(withq, "tags", [op |-> "in", arg |-> tag])
        ELSE withq

\* The filter list_projects builds: a dict from key to condition.
list_projects_query(q, tag) ==
    LET base == ("visibility" :> [op |-> "eq", arg |-> "public"])
        withq == IF q # <<>>
                 THEN base @@ ("$or" :> [op |-> "regex", arg |-> q])
                 ELSE base
    IN  IF tag # <<>>
        THEN setdefault(withq, "tags", [op |-> "in", arg |-> tag])
        ELSE withq

\* A document against one key of a filter.
condition_holds(doc, key, cond) ==
    CASE key = "visibility" -> doc.visibility = cond.arg
      [] key = "$or" ->
            \/ regex_search(cond.arg, doc.title)
            \/ regex_search(cond.arg, doc.description)
            \/ \E i \in 1 .. Len(doc.tags) : regex_search(cond.arg, doc.tags[i])
      [] key = "tags" /\ cond.op = "in" -> Contains(doc.tags, cond.arg)
      [] key = "tags" /\ cond.op = "elemMatch" ->
            \E i \in 1 .. Len(doc.tags) : regex_search(cond.arg, doc.tags[i])

\* collection.find(query): the keys of a filter are AND-combined.
matches(doc, query) ==
    \A key \in DOMAIN query : condition_holds(doc, key, query[key])

\* .sort("created_at", -1)
RECURSIVE sort_newest_first(_)
sort_newest_first(S) ==
    IF S = {} THEN <<>>
    ELSE LET newest == CHOOSE p \in S : \A o \in S : o.created_at <= p.created_at
         IN  <<newest>> \o sort_newest_first(S \ {newest})

\* An invalid pattern is the store's error, a 500.
list_projects(s, q, tag) ==
    /\ Free(s)
    /\ nreqs' = nreqs + 1
    /\ UNCHANGED <<store, nextOid, now, req, issued>>
    /\ LET r == [Idle EXCEPT !.op = "list_projects"]
           query == list_projects_query(q, tag)
       IN  IF q # <<>> /\ ~regex_valid(q)
           THEN last' = [Response(r, 500, NoToken) EXCEPT !.q = q, !.tag = tag]
           ELSE last' = [Response(r, 200, NoToken) EXCEPT !.q = q, !.tag = tag,
                            !.items = sort_newest_first(
                                {p \in projects : matches(p, query)})]

\* ------------------------------------------------------------ the reads
\* The handlers below write nothing.  Each is one step: where its lookups fall
\* between the steps of other requests changes its answer, never the store.

\* GET /projects/{id}: no guard and no visibility check.
get_project(s, project_id) ==
    /\ Free(s)
    /\ nreqs' = nreqs + 1
    /\ UNCHANGED <<store, nextOid, now, req, issued>>
    /\ LET r == [Idle EXCEPT !.op = "get_project", !.id = project_id]
       IN  IF InvalidId(project_id) THEN last' = Response(r, 500, NoToken)
           ELSE IF find_project(ObjectId(project_id)) = NoProject
                THEN last' = Response(r, 404, NoToken)
           ELSE last' = [Response(r, 200, NoToken) EXCEPT
                            !.items = <<find_project(ObjectId(project_id))>>]

\* GET /me/saved: ObjectId(s["project_id"]) of every saved document, then the
\* projects among them that are stored.
my_saved(s, authorization) ==
    /\ Free(s)
    /\ nreqs' = nreqs + 1
    /\ UNCHANGED <<store, nextOid, now, req, issued>>
    /\ LET user == get_current_user(authorization)
           r == [Idle EXCEPT !.op = "my_saved", !.user = user.id]
           saved == {sp \in savedproject : sp.user_id = user.id}
       IN  IF user.code # 200 THEN last' = Response(r, 401, NoToken)
           ELSE IF \E sp \in saved : InvalidId(sp.project_id)
                THEN last' = Response(r, 500, NoToken)
           ELSE last' = [Response(r, 200, NoToken) EXCEPT
                            !.items = sort_newest_first(
                                {p \in projects :
                                    \E sp \in saved : ObjectId(sp.project_id) = p._id})]

\* GET /owner/projects/{id}/requests
list_requests(s, authorization, project_id) ==
    /\ Free(s)
    /\ nreqs' = nreqs + 1
    /\ UNCHANGED <<store, nextOid, now, req, issued>>
    /\ LET user == get_current_user(authorization)
           r == [Idle EXCEPT !.op = "list_requests", !.user = user.id,
                             !.id = project_id]
       IN  IF user.code # 200 THEN last' = Response(r, 401, NoToken)
           ELSE IF InvalidId(project_id) THEN last' = Response(r, 500, NoToken)
           ELSE LET p == find_project(ObjectId(project_id))
                IN  IF p = NoProject THEN last' = Response(r, 404, NoToken)
                    ELSE IF p.owner_id # user.id THEN last' = Response(r, 403, NoToken)
                    ELSE last' = Response(r, 200, NoToken)

\* GET /owner/requests/{id}/document
download_document(s, authorization, request_id) ==
    /\ Free(s)
    /\ nreqs' = nreqs + 1
    /\ UNCHANGED <<store, nextOid, now, req, issued>>
    /\ LET user == get_current_user(authorization)
           r == [Idle EXCEPT !.op = "download_document", !.user = user.id,
                             !.id = request_id]
       IN  IF user.code # 200 THEN last' = Response(r, 401, NoToken)
           ELSE IF InvalidId(request_id) THEN last' = Response(r, 500, NoToken)
           ELSE LET doc == find_request(ObjectId(request_id))
                    p == find_project(ObjectId(doc.project_id))
                IN  IF doc = NoRequest THEN last' = Response(r, 404, NoToken)
                    ELSE IF p = NoProject \/ p.owner_id # user.id
                         THEN last' = Response(r, 403, NoToken)
                    ELSE IF doc.document_path \notin files
                         THEN last' = Response(r, 404, NoToken)
                    ELSE last' = Response(r, 200, NoToken)

\* ------------------------------------------------------ POST /auth/signup
\* The lookup by email and the 400.
signup_find(s, payload) ==
    /\ Free(s)
    /\ UNCHANGED <<store, nextOid, now, issued>>
    /\ LET r == [Idle EXCEPT !.op = "signup", !.cred = payload]
       IN  IF find_user_by_email(payload.email) # NoUser THEN Answer(s, r, 400)
           ELSE OidsLeft(1) /\ Proceed(s, r, "insert_one")

\* insert_one(user_doc), then the token for the inserted id.
signup_insert_one(s) ==
    /\ req[s].op = "signup" /\ req[s].pc = "insert_one"
    /\ users' = Append(users,
          [_id |-> nextOid, name |-> req[s].cred.name, email |-> req[s].cred.email,
           password_hash |-> hash_password(req[s].cred.password)])
    /\ nextOid' = nextOid + 1
    /\ LET token == create_token(str(nextOid), req[s].cred.email, now)
       IN  /\ last' = Response(req[s], 200, token)
           /\ issued' = issued \cup {[token |-> token, cred |-> req[s].cred]}
    /\ req' = [req EXCEPT ![s] = Idle]
    /\ UNCHANGED <<projects, savedproject, collaborationrequest, files, now, nreqs>>

\* ------------------------------------------------------ POST /auth/signin
signin(s, payload) ==
    /\ Free(s)
    /\ nreqs' = nreqs + 1
    /\ UNCHANGED <<store, nextOid, now, req>>
    /\ LET r == [Idle EXCEPT !.op = "signin", !.cred = payload]
           user == find_user_by_email(payload.email)
       IN  IF user = NoUser \/ ~verify_password(payload.password, user.password_hash)
           THEN /\ last' = Response(r, 401, NoToken)
                /\ UNCHANGED issued
           ELSE LET token == create_token(str(user._id), user.email, now)
                IN  /\ last' = Response(r, 200, token)
                    /\ issued' = issued \cup {[token |-> token, cred |-> payload]}

\* ---------------------------------------------------------------- GET /me
\* The guard's answer is the response: the id in user, the email and the name
\* in cred.
me(s, authorization) ==
    /\ Free(s)
    /\ nreqs' = nreqs + 1
    /\ UNCHANGED <<store, nextOid, now, req, issued>>
    /\ LET user == get_current_user(authorization)
           r == [Idle EXCEPT !.op = "me", !.user = user.id,
                             !.cred = [name |-> user.name, email |-> user.email,
                                       password |-> ""]]
       IN  last' = Response(r, user.code, NoToken)

\* --------------------------------------------------------------- POST /me
\* ProfileUpdate has the one field name; "" stands for a body without it.
update_me_guard(s, authorization, name) ==
    /\ Free(s)
    /\ UNCHANGED <<store, nextOid, now, issued>>
    /\ LET user == get_current_user(authorization)
           r == [Idle EXCEPT !.op = "update_me", !.user = user.id,
                             !.cred = [NoCred EXCEPT !.name = name]]
       IN  IF user.code # 200 THEN Answer(s, r, 401)
           ELSE IF name # "" THEN Proceed(s, r, "update_one")
           ELSE Proceed(s, r, "find_one")

update_me_update_one(s) ==
    /\ req[s].op = "update_me" /\ req[s].pc = "update_one"
    /\ users' = [i \in 1 .. Len(users) |->
                    IF users[i]._id = ObjectId(req[s].user)
                    THEN [users[i] EXCEPT !.name = req[s].cred.name]
                    ELSE users[i]]
    /\ Step(s, "find_one")
    /\ UNCHANGED <<projects, savedproject, collaborationrequest, files, nextOid,
                   now, nreqs, issued>>

update_me_return(s) ==
    /\ req[s].op = "update_me" /\ req[s].pc = "find_one"
    /\ LET u == find_user_by_id(ObjectId(req[s].user))
       IN  last' = Response([req[s] EXCEPT !.cred = [name |-> u.name,
                                email |-> u.email, password |-> ""]], 200, NoToken)
    /\ req' = [req EXCEPT ![s] = Idle]
    /\ UNCHANGED <<store, nextOid, now, nreqs, issued>>

\* A second passes.
Tick ==
    /\ now < MaxClock
    /\ now' = now + 1
    /\ last' = NoResponse
    /\ UNCHANGED <<store, nextOid, req, nreqs, issued>>

\* ======================================================================
\* Specifications
\* ======================================================================

\* ------------------------------------------------------------ the service
Alice == [_id |-> 1, name |-> "alice", email |-> "a@x", password_hash |-> hash_password("pa")]
Bob == [_id |-> 2, name |-> "bob", email |-> "b@x", password_hash |-> hash_password("pb")]

\* Two users have signed up and alice has published one project: the state
\* signup by each, then create_project by alice, lead to.
Init ==
    /\ users = <<Alice, Bob>>
    /\ projects = {[_id |-> 3, owner_id |-> str(1), title |-> <<"a">>,
                    description |-> <<"b">>, tags |-> <<>>, visibility |-> "public",
                    created_at |-> 3, updated_at |-> 0]}
    /\ savedproject = {}
    /\ collaborationrequest = {}
    /\ files = {}
    /\ nextOid = 4
    /\ now = 0
    /\ req = [s \in Slots |-> Idle]
    /\ last = NoResponse
    /\ nreqs = 0
    /\ issued = {}

Next ==
    \E s \in Slots :
        \/ \E a \in Authorizations, b \in Payloads : create_project(s, a, b)
        \/ \E a \in Authorizations, i \in ProjectIds, b \in Payloads :
              update_project_find(s, a, i, b)
        \/ update_project_update_one(s)
        \/ update_project_return(s)
        \/ \E a \in Authorizations, i \in ProjectIds : delete_project_find(s, a, i)
        \/ delete_project_delete_one(s)
        \/ delete_project_delete_saved(s)
        \/ delete_project_delete_requests(s)
        \/ \E a \in Authorizations, i \in ProjectIds : save_project_find(s, a, i)
        \/ save_project_insert_one(s)
        \/ \E a \in Authorizations, i \in ProjectIds : apply_to_project_find(s, a, i)
        \/ apply_to_project_write_file(s)
        \/ apply_to_project_insert_one(s)
        \/ \E a \in Authorizations, i \in RequestIds, st \in StatusInputs :
              update_status_find(s, a, i, st)
        \/ update_status_check(s)
        \/ update_status_update_one(s)
        \/ \E i \in ProjectIds : get_project(s, i)
        \/ \E a \in Authorizations : my_saved(s, a)
        \/ \E a \in Authorizations, i \in ProjectIds : list_requests(s, a, i)
        \/ \E a \in Authorizations, i \in RequestIds : download_document(s, a, i)
        \/ \E a \in Authorizations : update_me_guard(s, a, "n2")
        \/ update_me_update_one(s)
        \/ update_me_return(s)

Spec == Init /\ [][Next]_vars

\* The service once alice has published a project and bob has applied to it:
\* the state create_project by alice, then apply_to_project by bob, lead to.
InitReview ==
    /\ users = <<Alice, Bob>>
    /\ projects = {[_id |-> 3, owner_id |-> str(1), title |-> <<"a">>,
                    description |-> <<"b">>, tags |-> <<>>, visibility |-> "public",
                    created_at |-> 3, updated_at |-> 0]}
    /\ savedproject = {}
    /\ collaborationrequest =
          {[_id |-> 5, project_id |-> str(3), applicant_id |-> str(2),
            document_path |-> 4, status |-> "pending"]}
    /\ files = {4}
    /\ nextOid = 6
    /\ now = 0
    /\ req = [s \in Slots |-> Idle]
    /\ last = NoResponse
    /\ nreqs = 0
    /\ issued = {}

\* The owner's review of applications: applying and setting a status.
NextReview ==
    \E s \in Slots :
        \/ \E a \in Authorizations, i \in ProjectIds : apply_to_project_find(s, a, i)
        \/ apply_to_project_write_file(s)
        \/ apply_to_project_insert_one(s)
        \/ \E a \in Authorizations, i \in RequestIds, st \in StatusInputs :
              update_status_find(s, a, i, st)
        \/ update_status_check(s)
        \/ update_status_update_one(s)

SpecReview == InitReview /\ [][NextReview]_vars

\* ------------------------------------------------------ the project board
ListPayloads ==
    {[title |-> t, description |-> <<".">>, tags |-> g, visibility |-> v] :
        t \in {<<"a", "b">>, <<"B">>},
        g \in {<< <<"a">> >>, << <<"b">>, <<"a", "b">> >>},
        v \in {"public", "private"}}

Queries == {<<>>, <<"a">>, <<"A", "B">>, <<".">>, <<"(">>}
Tags == {<<>>, <<"a">>, <<"a", "b">>, <<"A">>}

\* Projects are published and replaced by alice, and anyone lists them.
NextList ==
    \E s \in Slots :
        \/ \E b \in ListPayloads :
              create_project(s, Bearer(create_token(str(1), "a@x", 0)), b)
        \/ \E i \in ProjectIds, b \in ListPayloads :
              update_project_find(s, Bearer(create_token(str(1), "a@x", 0)), i, b)
        \/ update_project_update_one(s)
        \/ update_project_return(s)
        \/ \E q \in Queries, tag \in Tags : list_projects(s, q, tag)

SpecList == Init /\ [][NextList]_vars

\* ------------------------------------------------------- the auth service
\* A token signed with another key, and header values that are not
\* "Bearer <token>".
Forged == [sub |-> str(1), email |-> "a@x", iat |-> 0, key |-> "guessed"]

AuthInputs ==
    {Bearer(t.token) : t \in issued}
        \cup {[Bearer(t.token) EXCEPT !.scheme = "Basic"] : t \in issued}
        \cup {MissingHeader, Bearer(Forged),
              [parts |-> 1, scheme |-> "Bearer", token |-> NoToken]}

Creds ==
    {[name |-> "n1", email |-> e, password |-> pw] :
        e \in {"a@x", "b@x"}, pw \in {"p1", "p2"}}

\* The first user of the service: what signup stores for these credentials.
Carol == [_id |-> 1, name |-> "n1", email |-> "a@x", password_hash |-> hash_password("p1")]

\* One user has signed up and holds the token that signup returned: the state
\* signup_find, then signup_insert_one, lead to from an empty store.
InitAuth ==
    /\ users = <<Carol>>
    /\ projects = {}
    /\ savedproject = {}
    /\ collaborationrequest = {}
    /\ files = {}
    /\ nextOid = 2
    /\ now = 0
    /\ req = [s \in Slots |-> Idle]
    /\ last = NoResponse
    /\ nreqs = 0
    /\ issued = {[token |-> create_token(str(1), "a@x", 0),
                  cred |-> [name |-> "n1", email |-> "a@x", password |-> "p1"]]}

NextAuth ==
    \/ Tick
    \/ \E s \in Slots :
        \/ \E c \in Creds : signup_find(s, c)
        \/ signup_insert_one(s)
        \/ \E c \in Creds : signin(s, c)
        \/ \E a \in AuthInputs : me(s, a)
        \/ \E a \in AuthInputs, n \in {"", "n2"} : update_me_guard(s, a, n)
        \/ update_me_update_one(s)
        \/ update_me_return(s)

SpecAuth == InitAuth /\ [][NextAuth]_vars

\* ======================================================================
\* Properties
\* ======================================================================

\* The step just taken accepted a request (and may have answered it at once).
Accepting == nreqs' = nreqs + 1
\* The step just taken answered a request accepted earlier.
Finishing == nreqs' = nreqs /\ last' # NoResponse

Authenticated(r) == r.user # Malformed

\* ---------------------------------------------------------------- C1
\* C1: a project's update and delete are gated by ownership.  Whenever
\* update_project or delete_project of a stored project P is answered to an
\* authenticated user other than P's owner, the answer is 403 and no
\* collection and no file has changed; whenever it is answered to P's owner
\* while P is stored, the answer is 200; and a delete that ran its three store
\* steps answers 200 with P gone.
C1_OwnerGate ==
    [][ /\ \A p \in projects :
              (/\ last'.op \in {"update_project", "delete_project"}
               /\ last'.id = str(p._id)
               /\ Authenticated(last'))
              => IF last'.user # p.owner_id
                 THEN last'.code = 403 /\ UNCHANGED store
                 ELSE last'.code = 200
        /\ (Finishing /\ last'.op = "delete_project")
              => /\ last'.code = 200
                 /\ \A p \in projects' : p._id # ObjectId(last'.id)
      ]_vars

\* B was refused on a project that A had already updated.
C1_Witness ==
    /\ last.op \in {"update_project", "delete_project"}
    /\ last.code = 403
    /\ \E p \in projects :
          /\ last.id = str(p._id)
          /\ p.owner_id # last.user
          /\ p.updated_at = 1

\* ---------------------------------------------------------------- C2
\* C2: when delete_project answers 200 the project is gone and no savedproject
\* and no collaborationrequest document names its id, whatever other requests
\* ran between the delete's store steps.
C2_CascadeComplete ==
    (last.op = "delete_project" /\ last.code = 200)
    => /\ \A p \in projects : p._id # ObjectId(last.id)
       /\ \A sp \in savedproject : sp.project_id # last.id
       /\ \A r \in collaborationrequest : r.project_id # last.id

\* ---------------------------------------------------------------- C4
\* C4: every save_project of an authenticated user answers 200, and when it
\* does exactly one savedproject document holds the caller and the project id,
\* also when two saves of the same caller and project overlap.
C4_SaveIdempotent ==
    (last.op = "save_project" /\ Authenticated(last))
    => /\ last.code = 200
       /\ Cardinality({sp \in savedproject :
              sp.user_id = last.user /\ sp.project_id = last.id}) = 1

\* ---------------------------------------------------------------- C5
\* The project an apply names is missing: no stored project has that id.
ProjectMissing(project_id) ==
    InvalidId(project_id) \/ find_project(ObjectId(project_id)) = NoProject

ProjectPrivate(project_id) ==
    ~ProjectMissing(project_id)
        /\ find_project(ObjectId(project_id)).visibility = "private"

\* What a successful apply leaves: one more request, for that project, by the
\* caller, pending; every other document and file as it was.
ApplyEffect ==
    /\ last'.code = 200
    /\ \E new \in collaborationrequest' \ collaborationrequest :
          /\ collaborationrequest' = collaborationrequest \cup {new}
          /\ new.project_id = last'.id
          /\ new.applicant_id = last'.user
          /\ new.status = "pending"
    /\ UNCHANGED <<users, projects, savedproject, files>>

\* C5: an apply by an authenticated user is answered when it is accepted exactly
\* if the project is missing or private, then with 404 and with no document and
\* no file written; otherwise it goes on to answer 200 having added exactly one
\* pending request of the caller for that project and changed nothing else.
C5_ApplyGate ==
    [][ (last'.op = "apply_to_project" /\ Authenticated(last'))
        => IF Accepting
           THEN /\ ProjectMissing(last'.id) \/ ProjectPrivate(last'.id)
                /\ last'.code = 404
                /\ UNCHANGED store
           ELSE ApplyEffect
      ]_vars

\* The same, for ids that parse; an id that does not parse is answered 500.
C5_ApplyGateParsedIds ==
    [][ (last'.op = "apply_to_project" /\ Authenticated(last'))
        => IF Accepting
           THEN /\ ProjectMissing(last'.id) \/ ProjectPrivate(last'.id)
                /\ last'.code = IF InvalidId(last'.id) THEN 500 ELSE 404
                /\ UNCHANGED store
           ELSE ApplyEffect
      ]_vars

\* ---------------------------------------------------------------- C6
\* The request a status update names is stored, and its parent project is
\* stored and owned by the caller.
ByParentOwner(r) ==
    /\ ~InvalidId(r.id)
    /\ find_request(ObjectId(r.id)) # NoRequest
    /\ LET p == find_project(ObjectId(find_request(ObjectId(r.id)).project_id))
       IN  p # NoProject /\ p.owner_id = r.user

\* C6: a status update by the parent project's owner on a stored request with a
\* status outside {pending, accepted, rejected} is answered 400 and changes
\* nothing; and every stored request's status is one of the three, always.
C6_StatusValidated ==
    [][ /\ (/\ last'.op = "update_status"
            /\ last'.status \notin StatusValues
            /\ ByParentOwner(last'))
           => last'.code = 400 /\ UNCHANGED store
        /\ \A r \in collaborationrequest' : r.status \in StatusValues
      ]_vars

\* The owner was answered 400 for a status that is none of the three.
C6_Witness ==
    /\ last.op = "update_status"
    /\ last.code = 400
    /\ last.status \notin StatusValues
    /\ ByParentOwner(last)
    /\ find_request(ObjectId(last.id)).status \in StatusValues

\* ---------------------------------------------------------------- C9
\* The step just taken changed the status of stored request r.
StatusChanged(r) ==
    \E r2 \in collaborationrequest' : r2._id = r._id /\ r2.status # r.status

\* C9: the status of a stored request changes only in the update_one step of a
\* status update that names it, sent by the owner of its parent project (as far
\* as that project is still stored); a status update by any other authenticated
\* user, the applicant included, is answered 403 and changes nothing.
C9_OnlyOwnerSetsStatus ==
    [][ /\ \A r \in collaborationrequest :
              StatusChanged(r)
              => /\ last'.op = "update_status" /\ last'.code = 200
                 /\ last'.id = str(r._id)
                 /\ \A p \in projects :
                       p._id = ObjectId(r.project_id) => p.owner_id = last'.user
        /\ (/\ last'.op = "update_status"
            /\ Authenticated(last')
            /\ ~InvalidId(last'.id)
            /\ find_request(ObjectId(last'.id)) # NoRequest
            /\ \E p \in projects :
                  /\ p._id = ObjectId(find_request(ObjectId(last'.id)).project_id)
                  /\ p.owner_id # last'.user)
           => last'.code = 403 /\ UNCHANGED store
      ]_vars

\* The applicant asked to have its own request accepted and was refused.
C9_Witness ==
    /\ last.op = "update_status"
    /\ last.code = 403
    /\ last.status = "accepted"
    /\ ~InvalidId(last.id)
    /\ find_request(ObjectId(last.id)).applicant_id = last.user
    /\ find_request(ObjectId(last.id)).status = "pending"

\* --------------------------------------------------------------- C10
\* C10: a request is stored with status pending; a status update by the parent
\* project's owner with one of the three values passes the check whatever the
\* request's status is at that moment, and its update_one step answers 200 and
\* leaves the request with the value sent: no status is final.
C10_AnyToAny ==
    [][ /\ \A r2 \in collaborationrequest' :
              (\A r \in collaborationrequest : r._id # r2._id)
              => r2.status = "pending"
        /\ \A s \in Slots :
              (/\ req[s].op = "update_status" /\ req'[s] # req[s]
               /\ req[s].pc = "find_project"
               /\ req[s].status \in StatusValues
               /\ \E p \in projects :
                     p._id = ObjectId(req[s].project_id) /\ p.owner_id = req[s].user)
              => req'[s].pc = "update_one"
        /\ \A s \in Slots :
              (/\ req[s].op = "update_status" /\ req'[s] # req[s]
               /\ req[s].pc = "update_one")
              => /\ last'.code = 200
                 /\ \A r2 \in collaborationrequest' :
                       r2._id = ObjectId(req[s].id) => r2.status = req[s].status
      ]_vars

\* The owner has set an accepted request back to pending.
C10_Witness ==
    /\ last.op = "update_status"
    /\ last.code = 200
    /\ last.was = "accepted"
    /\ last.status = "pending"
    /\ ByParentOwner(last)
    /\ find_request(ObjectId(last.id)).status = "pending"

\* ---------------------------------------------------------------- C3
\* C3: a signup with a registered email is answered 400 and stores nothing, and
\* no two stored users ever have the same email, also when two signups with one
\* unused email overlap.
C3_EmailUnique ==
    [][ /\ (/\ last'.op = "signup"
            /\ \E i \in 1 .. Len(users) : users[i].email = last'.cred.email)
           => last'.code = 400 /\ UNCHANGED store
        /\ \A i, j \in 1 .. Len(users') :
              i # j => users'[i].email # users'[j].email
      ]_vars

\* ---------------------------------------------------------------- C8
\* The credentials match a stored user.
KnownCredentials(cred) ==
    \E i \in 1 .. Len(users) :
        /\ users[i].email = cred.email
        /\ verify_password(cred.password, users[i].password_hash)

\* C8: every token a signup or a signin has returned is accepted by the guard,
\* now and ever after, and resolves to a stored user with the email and the
\* password that were presented, with the email and the name of that user's
\* document as it is now; a signin whose email and password match no stored
\* user is answered 401 without a token.
C8_TokensResolve ==
    /\ \A t \in issued :
          LET u == get_current_user(Bearer(t.token))
              doc == find_user_by_id(ObjectId(u.id))
          IN  /\ u.code = 200
              /\ u.id = t.token.sub
              /\ doc.email = t.cred.email
              /\ verify_password(t.cred.password, doc.password_hash)
              /\ u.email = doc.email
              /\ u.name = doc.name
    /\ (last.op \in {"signup", "signin"} /\ last.code = 200)
          => [token |-> last.token, cred |-> last.cred] \in issued
    /\ (last.op \in {"signup", "signin"} /\ last.code # 200)
          => last.token = NoToken
    /\ (last.op = "signin" /\ ~KnownCredentials(last.cred))
          => last.code = 401

\* A token from an earlier second has just resolved, through GET /me, to its
\* user under the name update_me gave it since.
C8_Witness ==
    /\ last.op = "me"
    /\ last.code = 200
    /\ last.cred.name = "n2"
    /\ \E t \in issued :
          /\ t.token.sub = last.user
          /\ t.token.iat < now
          /\ t.cred.name = "n1"

\* ---------------------------------------------------------------- C7
\* A project satisfies the text query: the pattern is found in its title, its
\* description or one of its tags.
SatisfiesQuery(p, q) ==
    \/ regex_search(q, p.title)
    \/ regex_search(q, p.description)
    \/ \E i \in 1 .. Len(p.tags) : regex_search(q, p.tags[i])

\* C7: whatever is stored and whatever q and tag are, every project a listing
\* returns is a stored project that is not private; with a tag filter it has
\* that very tag among its tags; with both filters it satisfies both.
C7_ListFilters ==
    last.op = "list_projects"
    => \A i \in 1 .. Len(last.items) :
          LET p == last.items[i]
          IN  /\ p \in projects
              /\ p.visibility # "private"
              /\ last.tag # <<>> => Contains(p.tags, last.tag)
              /\ (last.q # <<>> /\ last.tag # <<>>)
                    => SatisfiesQuery(p, last.q) /\ Contains(p.tags, last.tag)

\* A listing with both filters returned a project and left out a private one
\* that satisfies both, and a public one that satisfies q without the tag.
C7_Witness ==
    /\ last.op = "list_projects"
    /\ last.q # <<>> /\ last.tag # <<>>
    /\ Len(last.items) = 1
    /\ \E p \in projects :
          /\ SatisfiesQuery(p, last.q)
          /\ \/ p.visibility = "private" /\ Contains(p.tags, last.tag)
             \/ p.visibility = "public" /\ ~Contains(p.tags, last.tag)

====
